---- MODULE Spec2Model ----
(***************************************************************************)
(* Model of the block-based file store of src/final.cpp (class FileSystem).*)
(*                                                                         *)
(* The 10MB image `storage` is modelled by its three regions:              *)
(*   storage.dir    the directory region, an array of DirectoryEntry       *)
(*   storage.count  the 4-byte free-block count of the free-list region    *)
(*   storage.flags  one flag byte per block (1 = free, 0 = used)           *)
(*   storage.data   the data region, per block a next pointer and payload  *)
(* next to the in-memory members freeBlocks, freeBlockCount, freeBlockList *)
(* and the backing file `disk`.  The sizes of the regions are scaled down. *)
(***************************************************************************)
EXTENDS Integers, Sequences, FiniteSets, TLC

\* Scaled-down sizes of the image (src/final.cpp:20-23).
BLOCK_SIZE == 6
MAX_BLOCKS == 3
MAX_FILES == 2

\* Longest content handed to create, longest suffix handed to append.
MaxLen == 3
MaxSuffix == 1

\* Operations explored in the behaviours that use the backing file.
MaxOps == 5

Names == {"a", "b", "c"}

\* File contents are sequences of non-zero bytes; 0 is the terminator '\0'.
MakeContent(n, first) == [i \in 1..n |-> IF (i + first) % 2 = 0 THEN 1 ELSE 2]
Contents == {MakeContent(n, 1) : n \in 0..MaxLen}
Suffixes == {MakeContent(n, 0) : n \in 0..MaxSuffix}

BlockIds == 0..(MAX_BLOCKS - 1)
SlotIds == 0..(MAX_FILES - 1)
PayloadIds == 0..(BLOCK_SIZE - 5)


VARIABLES storage, freeBlocks, freeBlockCount, freeBlockList, disk, last, opsLeft

vars == <<storage, freeBlocks, freeBlockCount, freeBlockList, disk, last, opsLeft>>

\* The engine: the image and the in-memory free-block bookkeeping.
Cur ==
  [storage |-> storage, freeBlocks |-> freeBlocks,
   freeBlockCount |-> freeBlockCount, freeBlockList |-> freeBlockList]

\* A zeroed directory slot (the image is zero-filled, the DirectoryEntry
\* constructor never runs on it).
ZeroEntry == [fileName |-> "", startBlock |-> 0, fileSize |-> 0, isValid |-> FALSE]

ZeroBlock == [next |-> 0, data |-> [i \in PayloadIds |-> 0]]

ZeroStorage ==
  [dir |-> [i \in SlotIds |-> ZeroEntry],
   count |-> 0,
   flags |-> [b \in BlockIds |-> 0],
   data |-> [b \in BlockIds |-> ZeroBlock]]

\* The backing file before the first save.
NoFile == [exists |-> FALSE, image |-> ZeroStorage]

RECURSIVE Iota(_, _)
Iota(from, to) == IF from >= to THEN <<>> ELSE <<from>> \o Iota(from + 1, to)

SeqToSet(s) == {s[i] : i \in 1..Len(s)}

Min(a, b) == IF a < b THEN a ELSE b

updateFreeBlockList(fs) ==
  [fs EXCEPT !.storage.count = fs.freeBlockCount,
             !.storage.flags = [b \in BlockIds |-> IF fs.freeBlocks[b] THEN 1 ELSE 0]]

\* allocateBlock that leaves the block at the head of the free list.
allocateBlockNoPop(fs) ==
  IF fs.freeBlockList = <<>>
  THEN [fs |-> fs, block |-> -1]
  ELSE LET blockIndex == Head(fs.freeBlockList)
           fs1 == [fs EXCEPT !.freeBlocks[blockIndex] = FALSE,
                             !.freeBlockCount = fs.freeBlockCount - 1]
       IN [fs |-> updateFreeBlockList(fs1), block |-> blockIndex]

\* allocateBlock that takes the block at the back of the free list.
allocateBlockFromBack(fs) ==
  IF fs.freeBlockList = <<>>
  THEN [fs |-> fs, block |-> -1]
  ELSE LET blockIndex == fs.freeBlockList[Len(fs.freeBlockList)]
           fs1 == [fs EXCEPT !.freeBlockList =
                               SubSeq(fs.freeBlockList, 1, Len(fs.freeBlockList) - 1),
                             !.freeBlocks[blockIndex] = FALSE,
                             !.freeBlockCount = fs.freeBlockCount - 1]
       IN [fs |-> updateFreeBlockList(fs1), block |-> blockIndex]

\* allocateBlock that does not decrement the free count.
allocateBlockKeepCount(fs) ==
  IF fs.freeBlockList = <<>>
  THEN [fs |-> fs, block |-> -1]
  ELSE LET blockIndex == Head(fs.freeBlockList)
           fs1 == [fs EXCEPT !.freeBlockList = Tail(fs.freeBlockList),
                             !.freeBlocks[blockIndex] = FALSE]
       IN [fs |-> updateFreeBlockList(fs1), block |-> blockIndex]

\* Returns the engine after the call and the block index (-1: disk full).
allocateBlock(fs) ==
  IF fs.freeBlockList = <<>>
  THEN [fs |-> fs, block |-> -1]
  ELSE LET blockIndex == Head(fs.freeBlockList)
           fs1 == [fs EXCEPT !.freeBlockList = Tail(fs.freeBlockList),
                             !.freeBlocks[blockIndex] = FALSE,
                             !.freeBlockCount = fs.freeBlockCount - 1]
       IN [fs |-> updateFreeBlockList(fs1), block |-> blockIndex]

\* freeBlock that puts the block at the front of the free list.
freeBlockPushFront(fs, blockIndex) ==
  IF blockIndex >= 0 /\ blockIndex < MAX_BLOCKS /\ ~fs.freeBlocks[blockIndex]
  THEN updateFreeBlockList(
         [fs EXCEPT !.freeBlocks[blockIndex] = TRUE,
                    !.freeBlockCount = fs.freeBlockCount + 1,
                    !.freeBlockList = <<blockIndex>> \o fs.freeBlockList,
                    !.storage.data[blockIndex] = ZeroBlock])
  ELSE fs

\* freeBlock that leaves the bytes of the block as they are.
freeBlockNoZero(fs, blockIndex) ==
  IF blockIndex >= 0 /\ blockIndex < MAX_BLOCKS /\ ~fs.freeBlocks[blockIndex]
  THEN updateFreeBlockList(
         [fs EXCEPT !.freeBlocks[blockIndex] = TRUE,
                    !.freeBlockCount = fs.freeBlockCount + 1,
                    !.freeBlockList = Append(fs.freeBlockList, blockIndex)])
  ELSE fs

\* freeBlock that does not write the flags and the count back to the image.
freeBlockNoPersist(fs, blockIndex) ==
  IF blockIndex >= 0 /\ blockIndex < MAX_BLOCKS /\ ~fs.freeBlocks[blockIndex]
  THEN [fs EXCEPT !.freeBlocks[blockIndex] = TRUE,
                  !.freeBlockCount = fs.freeBlockCount + 1,
                  !.freeBlockList = Append(fs.freeBlockList, blockIndex),
                  !.storage.data[blockIndex] = ZeroBlock]
  ELSE fs

freeBlock(fs, blockIndex) ==
  IF blockIndex >= 0 /\ blockIndex < MAX_BLOCKS /\ ~fs.freeBlocks[blockIndex]
  THEN updateFreeBlockList(
         [fs EXCEPT !.freeBlocks[blockIndex] = TRUE,
                    !.freeBlockCount = fs.freeBlockCount + 1,
                    !.freeBlockList = Append(fs.freeBlockList, blockIndex),
                    !.storage.data[blockIndex] = ZeroBlock])
  ELSE fs

\* findFreeDirectoryEntry that never looks at the last slot.
findFreeDirectoryEntryOffByOne(fs) ==
  LET free == {i \in SlotIds : i < MAX_FILES - 1 /\ ~fs.storage.dir[i].isValid}
  IN IF free = {} THEN -1 ELSE CHOOSE i \in free : \A j \in free : i <= j

\* Lowest invalid slot, -1 when the directory is full.
findFreeDirectoryEntry(fs) ==
  LET free == {i \in SlotIds : ~fs.storage.dir[i].isValid}
  IN IF free = {} THEN -1 ELSE CHOOSE i \in free : \A j \in free : i <= j

\* Lowest valid slot holding the name, -1 for nullptr.
findFile(fs, filename) ==
  LET hits == {i \in SlotIds : fs.storage.dir[i].isValid
                               /\ fs.storage.dir[i].fileName = filename}
  IN IF hits = {} THEN -1 ELSE CHOOSE i \in hits : \A j \in hits : i <= j

\* The block indices of the chain that starts at startBlock, in chain order.
\* The loop of the code ends only at the sentinel -1; the walk is cut where
\* the code would leave the data region or go round a cycle for ever.
RECURSIVE chainWalk(_, _, _)
chainWalk(fs, currentBlock, acc) ==
  IF currentBlock = -1 \/ currentBlock \notin BlockIds \/ Len(acc) > MAX_BLOCKS
  THEN acc
  ELSE chainWalk(fs, fs.storage.data[currentBlock].next, Append(acc, currentBlock))

getFileBlocks(fs, startBlock) == chainWalk(fs, startBlock, <<>>)

\* The bytes of one payload before its first zero byte.
RECURSIVE blockText(_, _)
blockText(data, i) ==
  IF i > BLOCK_SIZE - 5 \/ data[i] = 0
  THEN <<>>
  ELSE <<data[i]>> \o blockText(data, i + 1)

RECURSIVE concatBlocks(_, _)
concatBlocks(fs, blocks) ==
  IF blocks = <<>>
  THEN <<>>
  ELSE blockText(fs.storage.data[Head(blocks)].data, 0) \o concatBlocks(fs, Tail(blocks))

\* "" both for a missing file and for an empty one.
readFile(fs, filename) ==
  LET file == findFile(fs, filename)
  IN IF file = -1
     THEN <<>>
     ELSE concatBlocks(fs, getFileBlocks(fs, fs.storage.dir[file].startBlock))

RECURSIVE freeAll(_, _)
freeAll(fs, blocks) ==
  IF blocks = <<>> THEN fs ELSE freeAll(freeBlock(fs, Head(blocks)), Tail(blocks))

\* First pass of createNewFile: allocate n blocks, roll back when one fails.
RECURSIVE allocatePass(_, _, _)
allocatePass(fs, n, blocksToWrite) ==
  IF n = 0
  THEN [fs |-> fs, blocks |-> blocksToWrite, failed |-> FALSE]
  ELSE LET r == allocateBlock(fs)
       IN IF r.block = -1
          THEN [fs |-> freeAll(r.fs, blocksToWrite), blocks |-> <<>>, failed |-> TRUE]
          ELSE allocatePass(r.fs, n - 1, Append(blocksToWrite, r.block))

\* writePass that copies every block from the start of the content.
RECURSIVE writePassNoOffset(_, _, _, _, _)
writePassNoOffset(fs, content, blocksToWrite, bytesWritten, remainingBytes) ==
  IF blocksToWrite = <<>>
  THEN fs
  ELSE LET currentBlock == Head(blocksToWrite)
           rest == Tail(blocksToWrite)
           bytesToWrite == Min(BLOCK_SIZE - 4, remainingBytes)
           old == fs.storage.data[currentBlock]
           new == [next |-> IF rest = <<>> THEN -1 ELSE Head(rest),
                   data |-> [i \in PayloadIds |->
                               IF i < bytesToWrite
                               THEN IF i < Len(content) THEN content[i + 1] ELSE 0
                               ELSE old.data[i]]]
       IN writePassNoOffset([fs EXCEPT !.storage.data[currentBlock] = new], content,
                            rest, bytesWritten + bytesToWrite,
                            remainingBytes - bytesToWrite)

\* writePass that leaves the next pointer of the last block as it was.
RECURSIVE writePassNoSentinel(_, _, _, _, _)
writePassNoSentinel(fs, content, blocksToWrite, bytesWritten, remainingBytes) ==
  IF blocksToWrite = <<>>
  THEN fs
  ELSE LET currentBlock == Head(blocksToWrite)
           rest == Tail(blocksToWrite)
           bytesToWrite == Min(BLOCK_SIZE - 4, remainingBytes)
           old == fs.storage.data[currentBlock]
           new == [next |-> IF rest = <<>> THEN old.next ELSE Head(rest),
                   data |-> [i \in PayloadIds |->
                               IF i < bytesToWrite
                               THEN IF bytesWritten + i < Len(content)
                                    THEN content[bytesWritten + i + 1]
                                    ELSE 0
                               ELSE old.data[i]]]
       IN writePassNoSentinel([fs EXCEPT !.storage.data[currentBlock] = new], content,
                              rest, bytesWritten + bytesToWrite,
                              remainingBytes - bytesToWrite)

\* Second pass of createNewFile: link the blocks and copy the content.
RECURSIVE writePass(_, _, _, _, _)
writePass(fs, content, blocksToWrite, bytesWritten, remainingBytes) ==
  IF blocksToWrite = <<>>
  THEN fs
  ELSE LET currentBlock == Head(blocksToWrite)
           rest == Tail(blocksToWrite)
           bytesToWrite == Min(BLOCK_SIZE - 4, remainingBytes)
           old == fs.storage.data[currentBlock]
           new == [next |-> IF rest = <<>> THEN -1 ELSE Head(rest),
                   data |-> [i \in PayloadIds |->
                               IF i < bytesToWrite
                               THEN IF bytesWritten + i < Len(content)
                                    THEN content[bytesWritten + i + 1]
                                    ELSE 0
                               ELSE old.data[i]]]
       IN writePass([fs EXCEPT !.storage.data[currentBlock] = new], content, rest,
                    bytesWritten + bytesToWrite, remainingBytes - bytesToWrite)

\* The ceiling division with a divisor too many added.
blocksNeededForRoundedUp(content) ==
  ((Len(content) + 1) + BLOCK_SIZE - 4) \div (BLOCK_SIZE - 4)

blocksNeededFor(content) == ((Len(content) + 1) + BLOCK_SIZE - 5) \div (BLOCK_SIZE - 4)

\* The rest of createNewFile once the duplicate, slot and space checks passed.
createBody(fs, filename, content, dirIndex) ==
  LET a == allocatePass(fs, blocksNeededFor(content), <<>>)
  IN IF a.failed
     THEN [fs |-> a.fs, ok |-> FALSE, msg |-> "AllocationFailed"]
     ELSE LET w == writePass(a.fs, content, a.blocks, 0, Len(content) + 1)
              entry == [fileName |-> filename,
                        startBlock |-> Head(a.blocks),
                        fileSize |-> Len(content) + 1,
                        isValid |-> TRUE]
          IN [fs |-> [w EXCEPT !.storage.dir[dirIndex] = entry],
              ok |-> TRUE, msg |-> "Created"]

\* createNewFile without the duplicate check.
createNewFileNoDuplicateCheck(fs, filename, content) ==
  IF findFreeDirectoryEntry(fs) = -1
  THEN [fs |-> fs, ok |-> FALSE, msg |-> "DirectoryFull"]
  ELSE IF blocksNeededFor(content) > fs.freeBlockCount
  THEN [fs |-> fs, ok |-> FALSE, msg |-> "Exhausted"]
  ELSE createBody(fs, filename, content, findFreeDirectoryEntry(fs))

\* createNewFile without the up-front space check (it relies on the rollback).
createNewFileNoSpaceCheck(fs, filename, content) ==
  IF findFile(fs, filename) # -1
  THEN [fs |-> fs, ok |-> FALSE, msg |-> "AlreadyExists"]
  ELSE IF findFreeDirectoryEntry(fs) = -1
  THEN [fs |-> fs, ok |-> FALSE, msg |-> "DirectoryFull"]
  ELSE createBody(fs, filename, content, findFreeDirectoryEntry(fs))

\* createNewFile that checks the space before the name and the slot.
createNewFileSpaceFirst(fs, filename, content) ==
  IF blocksNeededFor(content) > fs.freeBlockCount
  THEN [fs |-> fs, ok |-> FALSE, msg |-> "Exhausted"]
  ELSE IF findFile(fs, filename) # -1
  THEN [fs |-> fs, ok |-> FALSE, msg |-> "AlreadyExists"]
  ELSE IF findFreeDirectoryEntry(fs) = -1
  THEN [fs |-> fs, ok |-> FALSE, msg |-> "DirectoryFull"]
  ELSE createBody(fs, filename, content, findFreeDirectoryEntry(fs))

\* createNewFile that allocates the blocks before it looks for a slot.
createNewFileAllocateFirst(fs, filename, content) ==
  IF findFile(fs, filename) # -1
  THEN [fs |-> fs, ok |-> FALSE, msg |-> "AlreadyExists"]
  ELSE IF blocksNeededFor(content) > fs.freeBlockCount
  THEN [fs |-> fs, ok |-> FALSE, msg |-> "Exhausted"]
  ELSE IF findFreeDirectoryEntry(fs) = -1
  THEN [fs |-> allocatePass(fs, blocksNeededFor(content), <<>>).fs,
        ok |-> FALSE, msg |-> "DirectoryFull"]
  ELSE createBody(fs, filename, content, findFreeDirectoryEntry(fs))

createNewFile(fs, filename, content) ==
  IF findFile(fs, filename) # -1
  THEN [fs |-> fs, ok |-> FALSE, msg |-> "AlreadyExists"]
  ELSE IF findFreeDirectoryEntry(fs) = -1
  THEN [fs |-> fs, ok |-> FALSE, msg |-> "DirectoryFull"]
  ELSE IF blocksNeededFor(content) > fs.freeBlockCount
  THEN [fs |-> fs, ok |-> FALSE, msg |-> "Exhausted"]
  ELSE createBody(fs, filename, content, findFreeDirectoryEntry(fs))

RECURSIVE Reverse(_)
Reverse(s) == IF s = <<>> THEN <<>> ELSE Append(Reverse(Tail(s)), Head(s))

\* deleteFile that wipes the whole entry.
deleteFileErase(fs, filename) ==
  LET fileIndex == findFile(fs, filename)
  IN IF fileIndex = -1
     THEN [fs |-> fs, ok |-> FALSE, msg |-> "NotFound"]
     ELSE LET blocksToFree == getFileBlocks(fs, fs.storage.dir[fileIndex].startBlock)
              freed == freeAll(fs, Reverse(blocksToFree))
          IN [fs |-> [freed EXCEPT !.storage.dir[fileIndex] = ZeroEntry],
              ok |-> TRUE, msg |-> "Deleted"]

\* deleteFile that leaves the entry valid.
deleteFileKeepValid(fs, filename) ==
  LET fileIndex == findFile(fs, filename)
  IN IF fileIndex = -1
     THEN [fs |-> fs, ok |-> FALSE, msg |-> "NotFound"]
     ELSE LET blocksToFree == getFileBlocks(fs, fs.storage.dir[fileIndex].startBlock)
          IN [fs |-> freeAll(fs, Reverse(blocksToFree)), ok |-> TRUE, msg |-> "Deleted"]

deleteFile(fs, filename) ==
  LET fileIndex == findFile(fs, filename)
  IN IF fileIndex = -1
     THEN [fs |-> fs, ok |-> FALSE, msg |-> "NotFound"]
     ELSE LET blocksToFree == getFileBlocks(fs, fs.storage.dir[fileIndex].startBlock)
              freed == freeAll(fs, Reverse(blocksToFree))
          IN [fs |-> [freed EXCEPT !.storage.dir[fileIndex].isValid = FALSE],
              ok |-> TRUE, msg |-> "Deleted"]

\* Append: read, delete, create again.  An empty read (missing or empty file)
\* returns false before anything is changed.
modifyFile(fs, filename, appendContent) ==
  LET content == readFile(fs, filename)
  IN IF content = <<>>
     THEN [fs |-> fs, ok |-> FALSE,
           msg |-> IF findFile(fs, filename) = -1 THEN "NotFound" ELSE "Empty"]
     ELSE createNewFile(deleteFile(fs, filename).fs, filename, content \o appendContent)

\* strcmp on the names of the model, all one byte long.
NameCode(n) == CASE n = "" -> 0 [] n = "a" -> 97 [] n = "b" -> 98 [] n = "c" -> 99

strcmp(x, y) == NameCode(x) - NameCode(y)

\* The sort with the comparison turned round.
RECURSIVE sortEntriesDescending(_)
sortEntriesDescending(S) ==
  IF S = {}
  THEN <<>>
  ELSE LET m == CHOOSE e \in S : \A f \in S : strcmp(e.fileName, f.fileName) >= 0
       IN <<<<m.fileName, m.fileSize>>>> \o sortEntriesDescending(S \ {m})

\* The valid entries sorted by name, as (name, size) pairs.
RECURSIVE sortEntries(_)
sortEntries(S) ==
  IF S = {}
  THEN <<>>
  ELSE LET m == CHOOSE e \in S : \A f \in S : strcmp(e.fileName, f.fileName) <= 0
       IN <<<<m.fileName, m.fileSize>>>> \o sortEntries(S \ {m})

listFiles(fs) ==
  sortEntries({fs.storage.dir[i] : i \in {j \in SlotIds : fs.storage.dir[j].isValid}})

\* The image file after saveToDisk.
saveToDisk(fs) == [exists |-> TRUE, image |-> fs.storage]

\* loadFromDisk that keeps the free-block count of the engine.
loadFromDiskKeepCount(fs, d) ==
  IF ~d.exists
  THEN [fs |-> fs, ok |-> FALSE]
  ELSE [fs |-> [storage |-> d.image,
                freeBlockCount |-> fs.freeBlockCount,
                freeBlocks |-> [b \in BlockIds |-> d.image.flags[b] = 1],
                freeBlockList |-> SelectSeq(Iota(0, MAX_BLOCKS),
                                            LAMBDA b : d.image.flags[b] = 1)],
        ok |-> TRUE]

\* loadFromDisk that takes the flag byte 0 for free.
loadFromDiskFlagsInverted(fs, d) ==
  IF ~d.exists
  THEN [fs |-> fs, ok |-> FALSE]
  ELSE [fs |-> [storage |-> d.image,
                freeBlockCount |-> d.image.count,
                freeBlocks |-> [b \in BlockIds |-> d.image.flags[b] = 0],
                freeBlockList |-> SelectSeq(Iota(0, MAX_BLOCKS),
                                            LAMBDA b : d.image.flags[b] = 0)],
        ok |-> TRUE]

\* loadFromDisk on an engine fs with backing file d.
loadFromDisk(fs, d) ==
  IF ~d.exists
  THEN [fs |-> fs, ok |-> FALSE]
  ELSE [fs |-> [storage |-> d.image,
                freeBlockCount |-> d.image.count,
                freeBlocks |-> [b \in BlockIds |-> d.image.flags[b] = 1],
                freeBlockList |-> SelectSeq(Iota(0, MAX_BLOCKS),
                                            LAMBDA b : d.image.flags[b] = 1)],
        ok |-> TRUE]

\* initializeFileSystem that does not write the free-list region.
initializeFileSystemNoFreeList(fs) ==
  [fs EXCEPT !.storage.dir = [i \in SlotIds |-> ZeroEntry],
             !.storage.data = [b \in BlockIds |-> ZeroBlock]]

initializeFileSystem(fs) ==
  LET cleared == [fs EXCEPT !.storage.dir = [i \in SlotIds |-> ZeroEntry]]
      listed == updateFreeBlockList(cleared)
  IN [listed EXCEPT !.storage.data = [b \in BlockIds |-> ZeroBlock]]

\* The constructor on backing file d.
FileSystem(d) ==
  LET blank == [storage |-> ZeroStorage,
                freeBlocks |-> [b \in BlockIds |-> TRUE],
                freeBlockCount |-> MAX_BLOCKS,
                freeBlockList |-> Iota(0, MAX_BLOCKS)]
      l == loadFromDisk(blank, d)
  IN IF l.ok THEN l.fs ELSE initializeFileSystem(blank)

\* What the caller saw of the last operation.
Record(op, ok, msg) == [op |-> op, ok |-> ok, msg |-> msg]

Install(fs) ==
  /\ storage' = fs.storage
  /\ freeBlocks' = fs.freeBlocks
  /\ freeBlockCount' = fs.freeBlockCount
  /\ freeBlockList' = fs.freeBlockList

\* One operation of the menu loop is accepted; opsLeft < 0 sets no limit.
Accept ==
  /\ opsLeft # 0
  /\ opsLeft' = IF opsLeft > 0 THEN opsLeft - 1 ELSE opsLeft

Started ==
  /\ disk = NoFile
  /\ storage = FileSystem(NoFile).storage
  /\ freeBlocks = FileSystem(NoFile).freeBlocks
  /\ freeBlockCount = FileSystem(NoFile).freeBlockCount
  /\ freeBlockList = FileSystem(NoFile).freeBlockList
  /\ last = Record("construct", TRUE, "Fresh")

Init == Started /\ opsLeft = -1

InitDisk == Started /\ opsLeft = MaxOps

\* Create that writes the image back after the operation.
CreateAndSave ==
  \E name \in Names, content \in Contents :
    LET r == createNewFile(Cur, name, content)
    IN /\ Accept
       /\ Install(r.fs)
       /\ last' = Record("create", r.ok, r.msg)
       /\ disk' = IF r.ok THEN saveToDisk(r.fs) ELSE disk

Create ==
  \E name \in Names, content \in Contents :
    LET r == createNewFile(Cur, name, content)
    IN /\ Accept
       /\ Install(r.fs)
       /\ last' = Record("create", r.ok, r.msg)
       /\ UNCHANGED disk

Delete ==
  \E name \in Names :
    LET r == deleteFile(Cur, name)
    IN /\ Accept
       /\ Install(r.fs)
       /\ last' = Record("delete", r.ok, r.msg)
       /\ UNCHANGED disk

Modify ==
  \E name \in Names, suffix \in Suffixes :
    LET r == modifyFile(Cur, name, suffix)
    IN /\ Accept
       /\ Install(r.fs)
       /\ last' = Record("append", r.ok, r.msg)
       /\ UNCHANGED disk

Read ==
  \E name \in Names :
    /\ Accept
    /\ last' = Record("read", findFile(Cur, name) # -1,
                      IF findFile(Cur, name) # -1 THEN "Read" ELSE "NotFound")
    /\ UNCHANGED <<storage, freeBlocks, freeBlockCount, freeBlockList, disk>>

List ==
  /\ Accept
  /\ last' = Record("list", TRUE, "Listed")
  /\ UNCHANGED <<storage, freeBlocks, freeBlockCount, freeBlockList, disk>>

Save ==
  /\ Accept
  /\ disk' = saveToDisk(Cur)
  /\ last' = Record("save", TRUE, "Saved")
  /\ UNCHANGED <<storage, freeBlocks, freeBlockCount, freeBlockList>>

\* A new engine is constructed on the backing file (a new run of the program).
Construct ==
  /\ Accept
  /\ Install(FileSystem(disk))
  /\ last' = Record("construct", TRUE, IF disk.exists THEN "Loaded" ELSE "Fresh")
  /\ UNCHANGED disk

Next == Create \/ Delete \/ Modify \/ Read \/ List

NextDisk == Create \/ Delete \/ Modify \/ Read \/ List \/ Save \/ Construct

\* The engine in memory, any number of operations.
Spec == Init /\ [][Next]_vars

\* The engine with its backing file, MaxOps operations.
SpecDisk == InitDisk /\ [][NextDisk]_vars

(***************************************************************************)
(* Vocabulary of the properties.                                           *)
(***************************************************************************)
ValidSlots(fs) == {i \in SlotIds : fs.storage.dir[i].isValid}

FileNames(fs) == {fs.storage.dir[i].fileName : i \in ValidSlots(fs)}

SlotChain(fs, i) == getFileBlocks(fs, fs.storage.dir[i].startBlock)

\* The set of blocks of the chain of the file called name.
ChainBlocks(fs, name) == SeqToSet(SlotChain(fs, findFile(fs, name)))

NoDuplicates(q) == \A i, j \in 1..Len(q) : i # j => q[i] # q[j]

\* The least number of blocks whose payloads hold the content and its
\* terminator.
RequiredBlocks(content) ==
  CHOOSE n \in 0..(Len(content) + 1) :
    /\ n * (BLOCK_SIZE - 4) >= Len(content) + 1
    /\ (n - 1) * (BLOCK_SIZE - 4) < Len(content) + 1

\* C1: in any reachable state a create that succeeds is read back exactly:
\* read(name) right after create(name, content) returns content, for the
\* empty content and a content that fills its blocks exactly as well.
RoundTrip ==
  \A name \in Names, content \in Contents :
    LET r == createNewFile(Cur, name, content)
    IN r.ok => readFile(r.fs, name) = content

\* A create has just succeeded on blocks used before, and a file whose
\* content fills one payload exactly is stored in two blocks.
RoundTripWitness ==
  /\ last.op = "create" /\ last.ok
  /\ \E i \in SlotIds : ~storage.dir[i].isValid /\ storage.dir[i].fileName \in Names
  /\ \E name \in FileNames(Cur) :
       /\ Len(readFile(Cur, name)) = BLOCK_SIZE - 4
       /\ Cardinality(ChainBlocks(Cur, name)) = 2

\* C2: in every state reached by create, delete, append, save and load from a
\* fresh store, free_count plus the number of blocks in the chains of the
\* valid entries is the total number of blocks.
AllocatorConservation ==
  freeBlockCount
    + Cardinality(UNION {SeqToSet(SlotChain(Cur, i)) : i \in ValidSlots(Cur)})
  = MAX_BLOCKS

\* An engine loaded from a saved image that holds files and free blocks.
AllocatorConservationWitness ==
  /\ last.op = "construct" /\ last.msg = "Loaded"
  /\ Cardinality(ValidSlots(Cur)) = 2
  /\ freeBlockCount = 1

\* C3: no block is in the chains of two valid entries or twice in one chain,
\* and no block of a chain is marked free or in the free queue.
ExclusiveOwnership ==
  /\ \A i \in ValidSlots(Cur) : NoDuplicates(SlotChain(Cur, i))
  /\ \A i, j \in ValidSlots(Cur) :
       i # j => SeqToSet(SlotChain(Cur, i)) \cap SeqToSet(SlotChain(Cur, j)) = {}
  /\ \A i \in ValidSlots(Cur) : \A b \in SeqToSet(SlotChain(Cur, i)) :
       /\ ~freeBlocks[b]
       /\ b \notin SeqToSet(freeBlockList)
       /\ storage.flags[b] = 0

\* Two files share the whole data region after an append rewrote one of them.
ExclusiveOwnershipWitness ==
  /\ last.op = "append" /\ last.ok
  /\ Cardinality(ValidSlots(Cur)) = 2
  /\ freeBlockCount = 0

\* C4: append on an existing file with content c returns Updated and leaves
\* c \o suffix, and append fails only with NotFound on a missing name.
AppendResult ==
  \A name \in Names, suffix \in Suffixes :
    LET c == readFile(Cur, name)
        r == modifyFile(Cur, name, suffix)
    IN /\ name \in FileNames(Cur) => r.ok /\ readFile(r.fs, name) = c \o suffix
       /\ ~r.ok => r.msg = "NotFound" /\ name \notin FileNames(Cur)

\* C5: an append that fails leaves the set of files and every content as they
\* were.
AppendAllOrNothing ==
  \A name \in Names, suffix \in Suffixes :
    LET r == modifyFile(Cur, name, suffix)
    IN ~r.ok =>
         /\ FileNames(r.fs) = FileNames(Cur)
         /\ \A n \in FileNames(Cur) : readFile(r.fs, n) = readFile(Cur, n)

\* C6 as stated: after a successful append the chain of the file shares no
\* block with its chain before the call, whatever the number of free blocks.
AppendFreshBlocks ==
  \A name \in Names, suffix \in Suffixes :
    LET r == modifyFile(Cur, name, suffix)
    IN r.ok => ChainBlocks(r.fs, name) \cap ChainBlocks(Cur, name) = {}

\* C6 amended: a successful append made while the free blocks are at least as
\* many as the new content needs puts the file on blocks that were not in its
\* chain before the call.
AppendFreshBlocksWhenRoom ==
  \A name \in Names, suffix \in Suffixes :
    LET r == modifyFile(Cur, name, suffix)
    IN r.ok /\ RequiredBlocks(readFile(Cur, name) \o suffix) <= freeBlockCount
         => ChainBlocks(r.fs, name) \cap ChainBlocks(Cur, name) = {}

\* An append has moved a file of two blocks: its old blocks are the last of
\* the free queue, and a further append finds room again.
AppendFreshBlocksWitness ==
  /\ last.op = "append" /\ last.ok
  /\ \E name \in FileNames(Cur), suffix \in Suffixes :
       LET r == modifyFile(Cur, name, suffix)
       IN /\ r.ok
          /\ RequiredBlocks(readFile(Cur, name) \o suffix) <= freeBlockCount
          /\ Cardinality(ChainBlocks(Cur, name)) >= 1
          /\ ChainBlocks(r.fs, name) \cap ChainBlocks(Cur, name) = {}

\* C7: with K free blocks, a create of a new name with a free slot whose
\* content needs more than K blocks fails with Exhausted, leaves free_count at
\* K and turns no free block into a used one.
SpaceExhaustion ==
  \A name \in Names \ FileNames(Cur), content \in Contents :
    LET r == createNewFile(Cur, name, content)
    IN (ValidSlots(Cur) # SlotIds /\ RequiredBlocks(content) > freeBlockCount)
         => /\ ~r.ok /\ r.msg = "Exhausted"
            /\ r.fs.freeBlockCount = freeBlockCount
            /\ \A b \in BlockIds :
                 freeBlocks[b] => r.fs.freeBlocks[b] /\ r.fs.storage.flags[b] = 1
            /\ r.fs.freeBlockList = freeBlockList

\* A create has just failed for want of space while a block was free.
SpaceExhaustionWitness ==
  /\ last.op = "create" /\ last.msg = "Exhausted"
  /\ freeBlockCount = 1
  /\ ValidSlots(Cur) # SlotIds

\* C8: a create of a new name succeeds while fewer than MAX_FILES files exist
\* and the free blocks suffice, fails with DirectoryFull when MAX_FILES files
\* exist, and succeeds again after any one file has been deleted.
DirectoryCapacity ==
  \A name \in Names \ FileNames(Cur), content \in Contents :
    LET r == createNewFile(Cur, name, content)
    IN /\ (Cardinality(FileNames(Cur)) < MAX_FILES
            /\ RequiredBlocks(content) <= freeBlockCount) => r.ok /\ r.msg = "Created"
       /\ Cardinality(FileNames(Cur)) = MAX_FILES =>
            /\ ~r.ok /\ r.msg = "DirectoryFull"
            /\ \A victim \in FileNames(Cur) :
                 LET d == deleteFile(Cur, victim)
                     again == createNewFile(d.fs, name, content)
                 IN RequiredBlocks(content) <= d.fs.freeBlockCount => again.ok

\* The create after MAX_FILES files has just been refused.
DirectoryCapacityWitness ==
  /\ last.op = "create" /\ last.msg = "DirectoryFull"
  /\ Cardinality(FileNames(Cur)) = MAX_FILES
  /\ freeBlockCount > 0

\* C9: delete of an existing name returns Deleted, the delete that follows it
\* returns NotFound and changes nothing.
DeleteGuard ==
  \A name \in FileNames(Cur) :
    LET first == deleteFile(Cur, name)
        second == deleteFile(first.fs, name)
    IN /\ first.ok /\ first.msg = "Deleted"
       /\ ~second.ok /\ second.msg = "NotFound"
       /\ second.fs = first.fs

\* A delete has just reported NotFound for a name whose deleted entry is
\* still in its slot.
DeleteGuardWitness ==
  /\ last.op = "delete" /\ last.msg = "NotFound"
  /\ \E i \in SlotIds :
       /\ ~storage.dir[i].isValid
       /\ storage.dir[i].fileName \in Names \ FileNames(Cur)
  /\ FileNames(Cur) # {}

\* C10: create answers AlreadyExists for an existing name whatever the
\* directory and the free blocks, else DirectoryFull when no slot is invalid
\* whatever the free blocks, and only else Exhausted; a create refused by the
\* name or the slot check has allocated nothing.
CreateCheckOrder ==
  \A name \in Names, content \in Contents :
    LET r == createNewFile(Cur, name, content)
    IN /\ name \in FileNames(Cur) => r.msg = "AlreadyExists"
       /\ (name \notin FileNames(Cur) /\ ValidSlots(Cur) = SlotIds)
            => r.msg = "DirectoryFull"
       /\ r.msg = "Exhausted" =>
            /\ name \notin FileNames(Cur)
            /\ ValidSlots(Cur) # SlotIds
            /\ RequiredBlocks(content) > freeBlockCount
       /\ r.msg \in {"AlreadyExists", "DirectoryFull"} => ~r.ok /\ r.fs = Cur

\* A duplicate has just been refused while the directory was full and no
\* block was free.
CreateCheckOrderWitness ==
  /\ last.op = "create" /\ last.msg = "AlreadyExists"
  /\ ValidSlots(Cur) = SlotIds
  /\ freeBlockCount = 0

\* C11: at most one slot is valid for any name; a deleted entry that still
\* carries the name does not count.
UniqueNames ==
  \A name \in Names :
    Cardinality({i \in ValidSlots(Cur) : storage.dir[i].fileName = name}) <= 1

\* A name is valid in one slot while a deleted entry of another slot still
\* carries it.
UniqueNamesWitness ==
  /\ last.op = "create" /\ last.ok
  /\ \E i, j \in SlotIds :
       /\ storage.dir[i].isValid /\ ~storage.dir[j].isValid
       /\ storage.dir[i].fileName = storage.dir[j].fileName
       /\ storage.dir[i].fileName \in Names

Sizes(fs) == {<<fs.storage.dir[i].fileName, fs.storage.dir[i].fileSize>> : i \in ValidSlots(fs)}

ListingAnswer ==
  LET listing == listFiles(Cur)
  IN /\ Len(listing) = Cardinality(ValidSlots(Cur))
     /\ SeqToSet(listing) = Sizes(Cur)
     /\ \A k \in 1..(Len(listing) - 1) :
          NameCode(listing[k][1]) < NameCode(listing[k + 1][1])

\* C12: list returns exactly the valid entries with their recorded sizes in
\* ascending order of name, whatever the slots and the order of creation, and
\* a list step changes nothing of the engine or the backing file.
Listing ==
  /\ []ListingAnswer
  /\ [][last'.op = "list" =>
          UNCHANGED <<storage, freeBlocks, freeBlockCount, freeBlockList, disk>>]_vars

\* A list has just answered with two files whose slots are in the opposite
\* order of their names, next to nothing deleted.
ListingWitness ==
  /\ last.op = "list"
  /\ ValidSlots(Cur) = SlotIds
  /\ \E i, j \in SlotIds :
       i < j /\ NameCode(storage.dir[i].fileName) > NameCode(storage.dir[j].fileName)
  /\ Len(listFiles(Cur)) = MAX_FILES

\* C13: save followed by the construction of a new engine on the backing file
\* gives an engine with the same listing, the same content for every name and
\* the same free flags and free count.
PersistenceFidelity ==
  LET loaded == FileSystem(saveToDisk(Cur))
  IN /\ listFiles(loaded) = listFiles(Cur)
     /\ \A name \in Names :
          /\ findFile(loaded, name) = findFile(Cur, name)
          /\ readFile(loaded, name) = readFile(Cur, name)
     /\ loaded.freeBlocks = freeBlocks
     /\ loaded.freeBlockCount = freeBlockCount

\* An engine has just been loaded from the image saved before: two files,
\* one of them of two blocks.
PersistenceFidelityWitness ==
  /\ last.op = "construct" /\ last.msg = "Loaded"
  /\ disk.image = storage
  /\ ValidSlots(Cur) = SlotIds
  /\ \E name \in FileNames(Cur) : Cardinality(ChainBlocks(Cur, name)) = 2

Mutations == {"create", "delete", "append"}

\* C14 as stated: after every successful create, delete or append the backing
\* file holds exactly the image in memory.
FlushAfterMutation ==
  (last.op \in Mutations /\ last.ok) => (disk.exists /\ disk.image = storage)

\* C14 amended: create, delete and append leave the backing file as it was;
\* the file is written by save alone, and then holds the image in memory.
BackingFileWrittenBySave ==
  [][/\ last'.op \in Mutations => disk' = disk
     /\ last'.op = "save" => (disk'.exists /\ disk'.image = storage')]_vars

\* A successful mutation after a save: the backing file still holds the
\* older image.
BackingFileWrittenBySaveWitness ==
  /\ last.op \in Mutations /\ last.ok
  /\ disk.exists
  /\ disk.image # storage

\* C15: an engine constructed without a backing file reports no error and has
\* no valid entry, every block free in memory and in the image, the full free
\* count, the free queue 0, 1, ... in ascending order and a zero data region.
FreshInitialisation ==
  (last.op = "construct" /\ last.msg = "Fresh") =>
    /\ last.ok
    /\ ValidSlots(Cur) = {}
    /\ \A b \in BlockIds : freeBlocks[b] /\ storage.flags[b] = 1
    /\ freeBlockCount = MAX_BLOCKS /\ storage.count = MAX_BLOCKS
    /\ Len(freeBlockList) = MAX_BLOCKS
    /\ \A k \in 1..MAX_BLOCKS : freeBlockList[k] = k - 1
    /\ \A b \in BlockIds : storage.data[b].next = 0
                           /\ \A i \in PayloadIds : storage.data[b].data[i] = 0

\* A new engine has been constructed, after other operations, while no
\* backing file existed.
FreshInitialisationWitness ==
  /\ last.op = "construct" /\ last.msg = "Fresh"
  /\ ~disk.exists
  /\ opsLeft >= 0 /\ opsLeft <= MaxOps - 2

\* C16: between operations the free queue has no duplicates, holds exactly
\* the blocks flagged free in memory, which are exactly the blocks whose flag
\* byte in the image is 1, and free_count is the length of the queue and the
\* count stored in the image.
FreeListConsistency ==
  /\ NoDuplicates(freeBlockList)
  /\ SeqToSet(freeBlockList) = {b \in BlockIds : freeBlocks[b]}
  /\ {b \in BlockIds : freeBlocks[b]} = {b \in BlockIds : storage.flags[b] = 1}
  /\ \A b \in BlockIds : storage.flags[b] \in {0, 1}
  /\ freeBlockCount = Len(freeBlockList)
  /\ freeBlockCount = storage.count

\* An engine has just been loaded from an image in which blocks are free
\* after a delete and other blocks are in use.
FreeListConsistencyWitness ==
  /\ last.op = "construct" /\ last.msg = "Loaded"
  /\ freeBlockCount = 2
  /\ \E i \in SlotIds : ~storage.dir[i].isValid /\ storage.dir[i].fileName \in Names

\* C17: allocate hands out the head of the free queue and release appends at
\* its tail, so that a released block comes back only after every block that
\* was in the queue when it was released.
FifoAllocation ==
  /\ freeBlockList # <<>> =>
       /\ allocateBlock(Cur).block = Head(freeBlockList)
       /\ allocateBlock(Cur).fs.freeBlockList = Tail(freeBlockList)
  /\ \A b \in BlockIds :
       ~freeBlocks[b] =>
         LET released == freeBlock(Cur, b)
             drained == allocatePass(released, Len(freeBlockList), <<>>)
         IN /\ released.freeBlockList = Append(freeBlockList, b)
            /\ ~drained.failed
            /\ drained.blocks = freeBlockList
            /\ allocateBlock(drained.fs).block = b

\* After a delete the free queue is out of ascending order, holds several
\* blocks, and a block is in use.
FifoAllocationWitness ==
  /\ last.op = "delete" /\ last.ok
  /\ Len(freeBlockList) >= 2
  /\ freeBlockList[1] > freeBlockList[2]
  /\ \E b \in BlockIds : ~freeBlocks[b]

CeilDiv(a, b) == CHOOSE n \in 0..a : n * b >= a /\ (n - 1) * b < a

\* A successful create of the content takes n blocks: the free count falls
\* by n and the chain of the new file has n distinct blocks.
CreateTakes(name, content, n) ==
  LET r == createNewFile(Cur, name, content)
  IN r.ok =>
       /\ freeBlockCount - r.fs.freeBlockCount = n
       /\ Len(SlotChain(r.fs, findFile(r.fs, name))) = n
       /\ NoDuplicates(SlotChain(r.fs, findFile(r.fs, name)))

\* C18 as stated: a successful create takes exactly ceil(L / P) blocks for a
\* content of L bytes and a payload of P bytes per block.
BlocksNeededWithoutTerminator ==
  \A name \in Names, content \in Contents :
    CreateTakes(name, content, CeilDiv(Len(content), BLOCK_SIZE - 4))

\* C18 amended: a successful create takes exactly ceil((L + 1) / P) blocks,
\* the terminator byte counted with the content: free_count falls by that
\* number and the chain of the new file has that many blocks.
BlocksNeeded ==
  \A name \in Names, content \in Contents :
    CreateTakes(name, content, CeilDiv(Len(content) + 1, BLOCK_SIZE - 4))

\* A create has just stored an empty file in one block and a file that fills
\* one payload exactly in two.
BlocksNeededWitness ==
  /\ last.op = "create" /\ last.ok
  /\ \E i, j \in ValidSlots(Cur) :
       /\ storage.dir[i].fileSize = 1 /\ Len(SlotChain(Cur, i)) = 1
       /\ storage.dir[j].fileSize = BLOCK_SIZE - 3 /\ Len(SlotChain(Cur, j)) = 2

\* C19: for every valid file the payload bytes of its chain that lie beyond
\* the stored content are zero, and every free block is zero, header and
\* payload.
ZeroFilledTail ==
  /\ \A i \in ValidSlots(Cur) :
       LET chain == SlotChain(Cur, i)
       IN \A k \in 1..Len(chain), j \in PayloadIds :
            (k - 1) * (BLOCK_SIZE - 4) + j >= storage.dir[i].fileSize - 1
              => storage.data[chain[k]].data[j] = 0
  /\ \A b \in BlockIds :
       freeBlocks[b] =>
         /\ storage.data[b].next = 0
         /\ \A j \in PayloadIds : storage.data[b].data[j] = 0

\* A create has just put a file whose last block is not full on a block that
\* a deleted file started on.
ZeroFilledTailWitness ==
  /\ last.op = "create" /\ last.ok
  /\ \E i \in ValidSlots(Cur), t \in SlotIds :
       LET chain == SlotChain(Cur, i)
       IN /\ ~storage.dir[t].isValid /\ storage.dir[t].fileSize > BLOCK_SIZE - 4
          /\ chain # <<>>
          /\ chain[Len(chain)] = storage.dir[t].startBlock
          /\ storage.dir[i].fileSize % (BLOCK_SIZE - 4) # 0

\* C20: a successful delete changes in the directory only the valid flag of
\* the slot of the name; the deleted entry is hidden from find, read, list
\* and the duplicate check, and a later create takes the slot when it is the
\* lowest invalid one.
TombstoneDelete ==
  \A name \in FileNames(Cur) :
    LET slot == findFile(Cur, name)
        d == deleteFile(Cur, name)
    IN /\ d.ok
       /\ d.fs.storage.dir = [storage.dir EXCEPT ![slot].isValid = FALSE]
       /\ d.fs.storage.dir[slot].fileName = name
       /\ findFile(d.fs, name) = -1
       /\ readFile(d.fs, name) = <<>>
       /\ \A k \in 1..Len(listFiles(d.fs)) : listFiles(d.fs)[k][1] # name
       /\ \A other \in Names, content \in Contents :
            LET c == createNewFile(d.fs, other, content)
            IN /\ other = name => c.msg # "AlreadyExists"
               /\ (c.ok /\ \A i \in SlotIds : i < slot => storage.dir[i].isValid)
                    => /\ findFile(c.fs, other) = slot
                       /\ c.fs.storage.dir[slot].fileName = other

\* A delete has just left an entry with its name, size and first block in a
\* slot above a valid one.
TombstoneDeleteWitness ==
  /\ last.op = "delete" /\ last.ok
  /\ \E t \in SlotIds :
       /\ t > 0 /\ storage.dir[0].isValid
       /\ ~storage.dir[t].isValid
       /\ storage.dir[t].fileName \in Names \ FileNames(Cur)
       /\ storage.dir[t].fileSize > 1
       /\ freeBlocks[storage.dir[t].startBlock]

\* C21: a create that returns an error (AlreadyExists, DirectoryFull or
\* Exhausted, the only errors it returns) leaves the whole engine as it was:
\* directory, free flags, free count, the free queue and the data region.
FailedCreateNoOp ==
  \A name \in Names, content \in Contents :
    LET r == createNewFile(Cur, name, content)
    IN ~r.ok =>
         /\ r.msg \in {"AlreadyExists", "DirectoryFull", "Exhausted"}
         /\ r.fs.storage = storage
         /\ r.fs.freeBlocks = freeBlocks
         /\ r.fs.freeBlockCount = freeBlockCount
         /\ r.fs.freeBlockList = freeBlockList

\* A create has just failed in a state with a free slot and free blocks,
\* where one input is turned down for its name and another for its size.
FailedCreateNoOpWitness ==
  /\ last.op = "create" /\ ~last.ok
  /\ freeBlockList # <<>>
  /\ ValidSlots(Cur) # SlotIds
  /\ \E name \in Names, content \in Contents :
       createNewFile(Cur, name, content).msg = "AlreadyExists"
  /\ \E name \in Names, content \in Contents :
       createNewFile(Cur, name, content).msg = "Exhausted"

\* C22: for every valid entry the first block is a block index, and the next
\* pointers from it visit in-range used blocks, none twice, and reach the
\* sentinel after exactly ceil(size / payload capacity) blocks.
ChainsWellFormed ==
  \A i \in ValidSlots(Cur) :
    LET chain == SlotChain(Cur, i)
        n == CeilDiv(storage.dir[i].fileSize, BLOCK_SIZE - 4)
    IN /\ storage.dir[i].startBlock \in BlockIds
       /\ Len(chain) = n
       /\ n >= 1
       /\ NoDuplicates(chain)
       /\ \A k \in 1..n :
            /\ chain[k] \in BlockIds
            /\ ~freeBlocks[chain[k]]
            /\ storage.data[chain[k]].next = IF k = n THEN -1 ELSE chain[k + 1]

\* A valid file lies on a chain of several blocks that runs against the
\* index order, next to a one-block file.
ChainsWellFormedWitness ==
  \E i, j \in ValidSlots(Cur) :
    LET chain == SlotChain(Cur, i)
    IN /\ Len(chain) >= 2
       /\ chain[1] > chain[2]
       /\ Len(SlotChain(Cur, j)) = 1

\* C23: once the space check of create has passed, no allocation of its
\* first pass fails: allocating any number of blocks up to the free count
\* succeeds, and no create ends in the rollback branch.
RollbackNeverTaken ==
  /\ last.msg # "AllocationFailed"
  /\ \A n \in 0..freeBlockCount :
       LET a == allocatePass(Cur, n, <<>>)
       IN ~a.failed /\ Len(a.blocks) = n
  /\ \A name \in Names, content \in Contents :
       createNewFile(Cur, name, content).msg # "AllocationFailed"

\* A create has just taken every block that was free, the released ones
\* among them: a chain runs against the index order.
RollbackNeverTakenWitness ==
  /\ last.op = "create" /\ last.ok
  /\ freeBlockCount = 0 /\ freeBlockList = <<>>
  /\ \E i \in ValidSlots(Cur) :
       /\ Len(SlotChain(Cur, i)) = 2
       /\ SlotChain(Cur, i)[1] > SlotChain(Cur, i)[2]

====
